---- MODULE Spec2Model ----
(***************************************************************************)
(* Model of parse_blocks (mdbook-plugin-utils, markdown/block.rs): the     *)
(* single-pass scan that groups (event, span) pairs into blocks.           *)
(*                                                                         *)
(* An event is opaque to parse_blocks: the code only stores it and hands   *)
(* it to the two caller-supplied predicates.  An event is therefore        *)
(* modelled by the pair of answers the predicates give on it, so the four  *)
(* event values cover every way a pair of predicates can classify events.  *)
(* A span is a Range<usize>, a record [start, end]; the offset iterator    *)
(* yields well-formed ranges (start <= end) in no particular start order   *)
(* (an End tag carries the span of its whole element).                     *)
(***************************************************************************)
EXTENDS Integers, Sequences, FiniteSets, TLC

\* Bounds of the model.
MaxLen == 3    \* longest event sequence the offset iterator yields
MaxOff == 1    \* largest byte offset of a span

Event == [is_start : BOOLEAN, is_end : BOOLEAN]

Range == {r \in [start : 0..MaxOff, end : 0..MaxOff] : r.start <= r.end}

Item == [event : Event, span : Range]

Inputs == UNION {[1..n -> Item] : n \in 0..MaxLen}

\* The message of the only error parse_blocks raises.
NestedMsg == "Block is not closed. Nested blocks are not supported."

\* parse_blocks: the (event, span) sequence, the loop position, the block
\* list, the returned value, and the value an earlier call on the same
\* input returned.
\* mdbook-tabs: what the command line and the collaborators supply (env)
\* and the state of the process (cli).
VARIABLES content, pos, blocks, result, prev, env, cli

vars == <<content, pos, blocks, result, prev, env, cli>>

\* The renderer names a supports query may carry.
Renderers == {"html", "markdown"}

\* Command line, and the outcome of each fallible call of the binary.
Env ==
    [command : {"supports", "none"},
     renderer : Renderers,
     supported : SUBSET Renderers,
     input_ok : BOOLEAN,
     book_version_ok : BOOLEAN,
     version_req_ok : BOOLEAN,
     matches : BOOLEAN,
     run_ok : BOOLEAN,
     write_ok : BOOLEAN]

\* The process before main dispatches.
CliStart ==
    [pc |-> "main", stdin_read |-> FALSE, warned |-> FALSE, ran |-> FALSE,
     stdout |-> "empty", exit |-> "running"]

\* A process that is not part of the run.
NoEnv ==
    [command |-> "none", renderer |-> "html", supported |-> {},
     input_ok |-> FALSE, book_version_ok |-> FALSE, version_req_ok |-> FALSE,
     matches |-> FALSE, run_ok |-> FALSE, write_ok |-> FALSE]

\* The caller-supplied predicates.
is_start(event) == event.is_start

is_end(event) == event.is_end

Max(a, b) == IF a > b THEN a ELSE b

Min(a, b) == IF a < b THEN a ELSE b

\* Which arm of the if / else if / else chain handles an event.
BranchEndFirst(event) ==
    IF is_end(event) THEN "end"
    ELSE IF is_start(event) THEN "start"
    ELSE "ordinary"

Branch(event) ==
    IF is_start(event) THEN "start"
    ELSE IF is_end(event) THEN "end"
    ELSE "ordinary"

BlockNewFromZero(first_event, span) ==
    [closed |-> FALSE,
     events |-> <<first_event>>,
     span |-> [start |-> 0, end |-> span.end],
     inner_span |-> [start |-> 0, end |-> 0]]

\* Block::new
BlockNew(first_event, span) ==
    [closed |-> FALSE,
     events |-> <<first_event>>,
     span |-> span,
     inner_span |-> [start |-> 0, end |-> 0]]

LastOpenAny(bs) == bs # <<>>

LastOpenNegated(bs) == bs # <<>> /\ bs[Len(bs)].closed

\* if let Some(block) = blocks.last_mut() { if !block.closed { ... } }
LastOpen(bs) == bs # <<>> /\ ~bs[Len(bs)].closed

WidenSpanNoMax(block_span, span) ==
    [start |-> block_span.start, end |-> span.end]

\* if span.end > block.span.end { block.span = block.span.start..span.end; }
WidenSpan(block_span, span) ==
    IF span.end > block_span.end
    THEN [start |-> block_span.start, end |-> span.end]
    ELSE block_span

\* block.inner_span = match block.inner_span == (0..0) { ... }
WidenInner(inner_span, span) ==
    IF inner_span = [start |-> 0, end |-> 0]
    THEN span
    ELSE [start |-> inner_span.start, end |-> span.end]

CloseBlockInner(block, event, span) ==
    [block EXCEPT !.events = Append(@, event),
                  !.closed = TRUE,
                  !.span = WidenSpan(@, span),
                  !.inner_span = WidenInner(@, span)]

\* The end arm applied to the open block.
CloseBlock(block, event, span) ==
    [block EXCEPT !.events = Append(@, event),
                  !.closed = TRUE,
                  !.span = WidenSpan(@, span)]

AbsorbBlockNoPush(block, event, span) ==
    [block EXCEPT !.span = WidenSpan(@, span),
                  !.inner_span = WidenInner(@, span)]

\* The ordinary arm applied to the open block.
AbsorbBlock(block, event, span) ==
    [block EXCEPT !.events = Append(@, event),
                  !.span = WidenSpan(@, span),
                  !.inner_span = WidenInner(@, span)]

ReplaceLast(bs, b) == [bs EXCEPT ![Len(bs)] = b]

PushMerge(bs, b) == IF bs # <<>> THEN ReplaceLast(bs, b) ELSE Append(bs, b)

\* blocks.push(...)
Push(bs, b) == Append(bs, b)

Scanning == result.kind = "none"

HasNext == Scanning /\ pos <= Len(content)

Init ==
    /\ content \in Inputs
    /\ pos = 1
    /\ blocks = <<>>
    /\ result = [kind |-> "none"]
    /\ prev = [kind |-> "none"]
    /\ env = NoEnv
    /\ cli = CliStart

\* is_start(&event), no block open: blocks.push(Block::new(event, span))
PushBlock ==
    /\ HasNext
    /\ Branch(content[pos].event) = "start"
    /\ ~LastOpen(blocks)
    /\ blocks' = Push(blocks, BlockNew(content[pos].event, content[pos].span))
    /\ pos' = pos + 1
    /\ UNCHANGED <<env, cli, prev, content, result>>

BailNestedSoftSkip ==
    /\ HasNext
    /\ Branch(content[pos].event) = "start"
    /\ LastOpen(blocks)
    /\ pos' = pos + 1
    /\ UNCHANGED <<env, cli, prev, content, blocks, result>>

\* is_start(&event), a block open: bail!(...); the local block list is dropped
BailNested ==
    /\ HasNext
    /\ Branch(content[pos].event) = "start"
    /\ LastOpen(blocks)
    /\ result' = [kind |-> "Err", msg |-> NestedMsg]
    /\ blocks' = <<>>
    /\ UNCHANGED <<env, cli, prev, content, pos>>

\* is_end(&event)
EndEvent ==
    /\ HasNext
    /\ Branch(content[pos].event) = "end"
    /\ blocks' = IF LastOpen(blocks)
                 THEN ReplaceLast(blocks, CloseBlock(blocks[Len(blocks)],
                                     content[pos].event, content[pos].span))
                 ELSE blocks
    /\ pos' = pos + 1
    /\ UNCHANGED <<env, cli, prev, content, result>>

\* neither predicate matches
OrdinaryEvent ==
    /\ HasNext
    /\ Branch(content[pos].event) = "ordinary"
    /\ blocks' = IF LastOpen(blocks)
                 THEN ReplaceLast(blocks, AbsorbBlock(blocks[Len(blocks)],
                                     content[pos].event, content[pos].span))
                 ELSE blocks
    /\ pos' = pos + 1
    /\ UNCHANGED <<env, cli, prev, content, result>>

ReturnOkStrict ==
    /\ Scanning
    /\ pos > Len(content)
    /\ result' = IF LastOpen(blocks)
                 THEN [kind |-> "Err", msg |-> NestedMsg]
                 ELSE [kind |-> "Ok", value |-> blocks]
    /\ UNCHANGED <<env, cli, prev, content, pos, blocks>>

\* the iterator is exhausted: Ok(blocks)
ReturnOk ==
    /\ Scanning
    /\ pos > Len(content)
    /\ result' = [kind |-> "Ok", value |-> blocks]
    /\ UNCHANGED <<env, cli, prev, content, pos, blocks>>

Next == PushBlock \/ BailNested \/ EndEvent \/ OrdinaryEvent \/ ReturnOk

Spec == Init /\ [][Next]_vars

\* parse_blocks is a synchronous loop with no waits: a call that can take a
\* step takes it.
FairSpec == Spec /\ WF_vars(Next)

CallAgainKeepingBlocks ==
    /\ result.kind # "none"
    /\ prev.kind = "none"
    /\ prev' = result
    /\ pos' = 1
    /\ result' = [kind |-> "none"]
    /\ UNCHANGED <<env, cli, content, blocks>>

\* A second call with the same content and predicates: every local starts
\* afresh (let mut blocks = vec![]; a new iterator); the first call's
\* return value is kept by the caller.
CallAgain ==
    /\ result.kind # "none"
    /\ prev.kind = "none"
    /\ prev' = result
    /\ pos' = 1
    /\ blocks' = <<>>
    /\ result' = [kind |-> "none"]
    /\ UNCHANGED <<env, cli, content>>

NextTwice == Next \/ CallAgain

SpecTwice == Init /\ [][NextTwice]_vars

(***************************************************************************)
(* The mdbook-tabs binary: main dispatches on the subcommand; `supports`   *)
(* asks the preprocessor, the default command reads the book from stdin,   *)
(* checks versions, runs the preprocessor and writes the result.           *)
(***************************************************************************)
parseVars == <<content, pos, blocks, result, prev>>

Fail(c) == [c EXCEPT !.pc = "exit", !.exit = "Err"]

\* match &cli.command { Some(Supports(args)) => ..., None => ... }
Dispatch ==
    /\ cli.pc = "main"
    /\ cli' = [cli EXCEPT !.pc = IF env.command = "supports"
                                 THEN "handle_supports"
                                 ELSE "parse_input"]
    /\ UNCHANGED <<env, parseVars>>

SupportsAlwaysOk(supported) == "Ok"

\* match preprocessor.supports_renderer(renderer) { true => Ok(()), false => Err(..) }
SupportsResult(supported) == IF supported THEN "Ok" ELSE "Err"

HandleSupports ==
    /\ cli.pc = "handle_supports"
    /\ cli' = [cli EXCEPT !.pc = "exit",
                          !.exit = SupportsResult(env.renderer \in env.supported)]
    /\ UNCHANGED <<env, parseVars>>

\* let (ctx, book) = CmdPreprocessor::parse_input(reader)?;
ParseInput ==
    /\ cli.pc = "parse_input"
    /\ cli' = IF env.input_ok
              THEN [cli EXCEPT !.stdin_read = TRUE, !.pc = "book_version"]
              ELSE Fail([cli EXCEPT !.stdin_read = TRUE])
    /\ UNCHANGED <<env, parseVars>>

\* let book_version = Version::parse(&ctx.mdbook_version)?;
ParseBookVersion ==
    /\ cli.pc = "book_version"
    /\ cli' = IF env.book_version_ok
              THEN [cli EXCEPT !.pc = "version_req"]
              ELSE Fail(cli)
    /\ UNCHANGED <<env, parseVars>>

\* let version_req = VersionReq::parse(mdbook::MDBOOK_VERSION)?;
ParseVersionReq ==
    /\ cli.pc = "version_req"
    /\ cli' = IF env.version_req_ok
              THEN [cli EXCEPT !.pc = "check_version"]
              ELSE Fail(cli)
    /\ UNCHANGED <<env, parseVars>>

CheckVersionFatal ==
    /\ cli.pc = "check_version"
    /\ cli' = IF env.matches
              THEN [cli EXCEPT !.pc = "run"]
              ELSE Fail([cli EXCEPT !.warned = TRUE])
    /\ UNCHANGED <<env, parseVars>>

\* if !version_req.matches(&book_version) { warn!(...); }
CheckVersion ==
    /\ cli.pc = "check_version"
    /\ cli' = [cli EXCEPT !.warned = ~env.matches, !.pc = "run"]
    /\ UNCHANGED <<env, parseVars>>

\* let processed_book = preprocessor.run(&ctx, book)?;
RunPreprocessor ==
    /\ cli.pc = "run"
    /\ cli' = IF env.run_ok
              THEN [cli EXCEPT !.ran = TRUE, !.pc = "write"]
              ELSE Fail([cli EXCEPT !.ran = TRUE])
    /\ UNCHANGED <<env, parseVars>>

\* serde_json::to_writer(io::stdout(), &processed_book)?; Ok(())
WriteBook ==
    /\ cli.pc = "write"
    /\ cli' = IF env.write_ok
              THEN [cli EXCEPT !.stdout = "book", !.pc = "exit", !.exit = "Ok"]
              ELSE Fail([cli EXCEPT !.stdout = "partial"])
    /\ UNCHANGED <<env, parseVars>>

InitCli ==
    /\ env \in Env
    /\ cli = CliStart
    /\ content = <<>>
    /\ pos = 1
    /\ blocks = <<>>
    /\ result = [kind |-> "none"]
    /\ prev = [kind |-> "none"]

NextCli ==
    \/ Dispatch
    \/ HandleSupports
    \/ ParseInput
    \/ ParseBookVersion
    \/ ParseVersionReq
    \/ CheckVersion
    \/ RunPreprocessor
    \/ WriteBook

SpecCli == InitCli /\ [][NextCli]_vars

TypeOK ==
    /\ content \in Inputs
    /\ pos \in 1..(MaxLen + 1)
    /\ result.kind \in {"none", "Ok", "Err"}

(***************************************************************************)
(* What the input alone says about the outcome.  These definitions read    *)
(* only `content`; the properties below compare them with what the scan    *)
(* computed.                                                               *)
(***************************************************************************)
Starts(k) == content[k].event.is_start

\* an event the scan can only take as an end event
PureEnd(k) == content[k].event.is_end /\ ~content[k].event.is_start

Ordinary(k) == ~content[k].event.is_start /\ ~content[k].event.is_end

\* a start event at j while the block begun at i has seen no end event
HasNested ==
    \E i, j \in DOMAIN content :
        /\ i < j
        /\ Starts(i)
        /\ Starts(j)
        /\ \A k \in (i + 1)..(j - 1) : ~PureEnd(k)

StartIdxs == {k \in DOMAIN content : Starts(k)}

\* index of the i-th event that satisfies is_start
NthStart(i) ==
    CHOOSE k \in StartIdxs : Cardinality({m \in StartIdxs : m <= k}) = i

\* index of the last event of the region begun at a: the first end event
\* after a, or the end of the input
RegionEnd(a) ==
    IF \E k \in (a + 1)..Len(content) : PureEnd(k)
    THEN CHOOSE k \in (a + 1)..Len(content) :
             PureEnd(k) /\ \A m \in (a + 1)..(k - 1) : ~PureEnd(m)
    ELSE Len(content)

MaxEnd(a, b) ==
    CHOOSE e \in {content[k].span.end : k \in a..b} :
        \A k \in a..b : content[k].span.end <= e

Returned == result.kind = "Ok"

\* C1: parse_blocks returns the nested-block error, with its fixed message
\* and no block list, exactly when a start event arrives while a block is
\* open; every other input returns Ok with a block list.
C1_NestedErrorExactly ==
    result.kind # "none" =>
        /\ (result.kind = "Err") <=> HasNested
        /\ result.kind = "Err" => result = [kind |-> "Err", msg |-> NestedMsg]
        /\ result.kind = "Ok" => DOMAIN result = {"kind", "value"}

C1_Witness ==
    /\ result.kind = "Err"
    /\ pos = 3
    /\ Ordinary(2)

\* C2: every returned block's span starts at its start event's span start
\* and ends at the maximum span end over all the events it absorbed.
C2_SpanIsMax ==
    Returned =>
        \A i \in DOMAIN result.value :
            /\ result.value[i].span.start = content[NthStart(i)].span.start
            /\ result.value[i].span.end = MaxEnd(NthStart(i), RegionEnd(NthStart(i)))

\* a returned block that absorbed an event ending before the block's span end
C2_Witness ==
    /\ Returned
    /\ Len(result.value) = 1
    /\ Len(result.value[1].events) = 3
    /\ content[NthStart(1) + 1].span.end < content[NthStart(1)].span.end
    /\ content[NthStart(1) + 2].span.end < result.value[1].span.end
\* indices of the interior events of the region a..b
Interior(a, b) == {k \in (a + 1)..b : Ordinary(k)}

SetMin(S) == CHOOSE x \in S : \A y \in S : x <= y

SetMax(S) == CHOOSE x \in S : \A y \in S : y <= x

\* C3: a returned block that absorbed at least one interior event has
\* inner_span running from the first interior event's span start to the
\* last interior event's span end, for all well-formed spans.
C3_InnerFirstToLast ==
    Returned =>
        \A i \in DOMAIN result.value :
            LET a == NthStart(i)
                int == Interior(a, RegionEnd(a))
            IN  int # {} =>
                    /\ result.value[i].inner_span.start = content[SetMin(int)].span.start
                    /\ result.value[i].inner_span.end = content[SetMax(int)].span.end

\* C4: a returned block that absorbed no interior event has inner_span
\* 0..0; a new block starts with inner_span 0..0 and closing a block leaves
\* its inner_span as the interior events set it.
C4_NoInteriorSentinel ==
    Returned =>
        \A i \in DOMAIN result.value :
            Interior(NthStart(i), RegionEnd(NthStart(i))) = {} =>
                result.value[i].inner_span = [start |-> 0, end |-> 0]

C4_CreateCloseKeepInner ==
    result'.kind # "Err" =>
        /\ Len(blocks') > Len(blocks) =>
               blocks'[Len(blocks')].inner_span = [start |-> 0, end |-> 0]
        /\ \A i \in DOMAIN blocks :
               (blocks'[i].closed /\ ~blocks[i].closed) =>
                   blocks'[i].inner_span = blocks[i].inner_span

C4_InnerUntouchedByDelimiters ==
    [](C4_NoInteriorSentinel) /\ [][C4_CreateCloseKeepInner]_vars

\* a returned block closed right after its start event, whose delimiters
\* have spans other than 0..0
C4_Witness ==
    /\ Returned
    /\ Len(result.value) = 1
    /\ result.value[1].closed
    /\ Len(result.value[1].events) = 2
    /\ content[NthStart(1)].span # [start |-> 0, end |-> 0]
    /\ content[NthStart(1) + 1].span # [start |-> 0, end |-> 0]
\* C5: with no block open, an event that does not satisfy is_start leaves
\* the block list unchanged and raises no error.
C5_NoOpenNonStartIsNoOp ==
    [][(/\ result.kind = "none"
        /\ pos <= Len(content)
        /\ (blocks = <<>> \/ blocks[Len(blocks)].closed)
        /\ ~content[pos].event.is_start)
       => (/\ blocks' = blocks
           /\ result' = result
           /\ pos' = pos + 1)]_vars

\* a closed block followed by an end event that was consumed with no block open
C5_Witness ==
    /\ result.kind = "none"
    /\ pos = 4
    /\ Starts(1)
    /\ PureEnd(2)
    /\ PureEnd(3)
    /\ Len(blocks) = 1
    /\ blocks[1].closed
    /\ Len(blocks[1].events) = 2

\* the input ends inside a region: no error before, and no is_start or
\* is_end match after the last start event
TrailingOpen ==
    /\ ~HasNested
    /\ StartIdxs # {}
    /\ \A k \in (SetMax(StartIdxs) + 1)..Len(content) : ~content[k].event.is_end

\* C6: when the input ends while a block is open, parse_blocks returns Ok
\* with that block last, closed = false, holding every event absorbed so far.
C6_TrailingOpenBlockReturned ==
    (result.kind # "none" /\ TrailingOpen) =>
        /\ result.kind = "Ok"
        /\ result.value # <<>>
        /\ LET a == SetMax(StartIdxs)
               last == result.value[Len(result.value)]
           IN  /\ last.closed = FALSE
               /\ last.events = [k \in 1..(Len(content) - a + 1) |-> content[a + k - 1].event]

C6_Witness ==
    /\ Returned
    /\ TrailingOpen
    /\ Len(result.value) = 1
    /\ Len(result.value[1].events) = 3

\* C7: a returned block's events are the contiguous run of input events from
\* its start event to its end event (or the end of input), in order; the
\* first satisfies is_start, a closed block's last satisfies is_end only,
\* and nothing strictly between satisfies either predicate.
C7_EventsContiguousRun ==
    Returned =>
        \A i \in DOMAIN result.value :
            LET a == NthStart(i)
                b == RegionEnd(a)
                blk == result.value[i]
                ev == blk.events
                inner_last == IF blk.closed THEN Len(ev) - 1 ELSE Len(ev)
            IN  /\ ev = [k \in 1..(b - a + 1) |-> content[a + k - 1].event]
                /\ ev[1].is_start
                /\ blk.closed <=> (b > a /\ PureEnd(b))
                /\ blk.closed => (Len(ev) >= 2 /\ ev[Len(ev)].is_end /\ ~ev[Len(ev)].is_start)
                /\ \A k \in 2..inner_last : ~ev[k].is_start /\ ~ev[k].is_end

C7_Witness ==
    /\ Returned
    /\ Len(result.value) = 1
    /\ result.value[1].closed
    /\ Len(result.value[1].events) = 3

\* C8: an Ok result holds one block per is_start event, in document order,
\* and during the scan no block is removed, merged or reordered.
C8_OneBlockPerStart ==
    Returned =>
        /\ Len(result.value) = Cardinality(StartIdxs)
        /\ \A i \in DOMAIN result.value :
               /\ result.value[i].events[1] = content[NthStart(i)].event
               /\ result.value[i].span.start = content[NthStart(i)].span.start

C8_BlocksKept ==
    result'.kind # "Err" =>
        /\ Len(blocks') >= Len(blocks)
        /\ \A i \in DOMAIN blocks :
               /\ blocks'[i].events[1] = blocks[i].events[1]
               /\ blocks'[i].span.start = blocks[i].span.start
               /\ Len(blocks'[i].events) >= Len(blocks[i].events)

C8_BlocksInDocumentOrder ==
    [](C8_OneBlockPerStart) /\ [][C8_BlocksKept]_vars

\* two blocks returned, starting at different offsets
C8_Witness ==
    /\ Returned
    /\ Len(result.value) = 2
    /\ result.value[1].span.start # result.value[2].span.start

Overlap(r1, r2) == Max(r1.start, r2.start) < Min(r1.end, r2.end)

NonDecreasingStart ==
    \A k \in 1..(Len(content) - 1) : content[k].span.start <= content[k + 1].span.start

NoOverlap ==
    \A i, j \in DOMAIN result.value :
        i # j => ~Overlap(result.value[i].span, result.value[j].span)

\* C9 as stated: for well-formed spans that are non-decreasing in start, the
\* spans of two different returned blocks do not overlap.
C9_NoOverlapAsStated ==
    (Returned /\ NonDecreasingStart) => NoOverlap

\* no event's span runs past the span start of a later start event
NoSpanPastLaterStart ==
    \A k, m \in DOMAIN content :
        (k < m /\ Starts(m)) => content[k].span.end <= content[m].span.start

\* C9 (amended): for well-formed spans that are non-decreasing in start and
\* never run past the span start of a later start event, the spans of two
\* different returned blocks do not overlap.
C9_NoOverlapGivenSeparatedSpans ==
    (Returned /\ NonDecreasingStart /\ NoSpanPastLaterStart) => NoOverlap

C9_Witness ==
    /\ Returned
    /\ NonDecreasingStart
    /\ NoSpanPastLaterStart
    /\ Len(result.value) = 2
    /\ result.value[1].span = [start |-> 0, end |-> 1]
    /\ result.value[2].span.start = 1

\* C10: is_start is tested before is_end.  An event matching both is a start
\* event (opens a block, or raises the error when one is open) and never
\* closes a block; an event matching only is_end is an end event; an event
\* matching neither is ordinary.
C10_Step ==
    (result.kind = "none" /\ pos <= Len(content)) =>
        LET ev == content[pos].event
            open == blocks # <<>> /\ ~blocks[Len(blocks)].closed
            n == Len(blocks)
        IN  /\ (ev.is_start /\ ~open) =>
                   /\ result' = result
                   /\ blocks' = Append(blocks,
                          [closed |-> FALSE, events |-> <<ev>>,
                           span |-> content[pos].span,
                           inner_span |-> [start |-> 0, end |-> 0]])
            /\ (ev.is_start /\ open) => result'.kind = "Err"
            /\ (~ev.is_start /\ ev.is_end /\ open) =>
                   /\ result' = result
                   /\ Len(blocks') = n
                   /\ blocks'[n].closed
                   /\ blocks'[n].events = Append(blocks[n].events, ev)
                   /\ blocks'[n].inner_span = blocks[n].inner_span
            /\ (~ev.is_start /\ ~ev.is_end /\ open) =>
                   /\ result' = result
                   /\ Len(blocks') = n
                   /\ ~blocks'[n].closed
                   /\ blocks'[n].events = Append(blocks[n].events, ev)
            /\ (~ev.is_start /\ ~open) => (blocks' = blocks /\ result' = result)

C10_StartBeforeEnd == [][C10_Step]_vars

\* an event matching both predicates opened a block, and a second one
\* arriving while that block was open raised the error
C10_Witness ==
    /\ result.kind = "Err"
    /\ pos = 3
    /\ content[1].event = [is_start |-> TRUE, is_end |-> TRUE]
    /\ Ordinary(2)
    /\ content[3].event = [is_start |-> TRUE, is_end |-> TRUE]
\* C14: absorbing an ordinary event into an open block whose inner_span is
\* no longer 0..0 sets inner_span.end to the maximum of its current end and
\* the event's span end and keeps inner_span.start, so inner_span.end never
\* decreases.
C14_InnerEndIsMax ==
    [][(/\ result.kind = "none"
        /\ pos <= Len(content)
        /\ blocks # <<>>
        /\ ~blocks[Len(blocks)].closed
        /\ ~content[pos].event.is_start
        /\ ~content[pos].event.is_end
        /\ blocks[Len(blocks)].inner_span # [start |-> 0, end |-> 0])
       => (/\ blocks'[Len(blocks)].inner_span.start = blocks[Len(blocks)].inner_span.start
           /\ blocks'[Len(blocks)].inner_span.end =
                  Max(blocks[Len(blocks)].inner_span.end, content[pos].span.end))]_vars

\* C15: in every state of the scan at most one block is open, and an open
\* block is the last element of the block list.
C15_OnlyLastBlockOpen ==
    \A i \in DOMAIN blocks : ~blocks[i].closed => i = Len(blocks)

\* a closed block followed by an open one
C15_Witness ==
    /\ result.kind = "none"
    /\ Len(blocks) = 2
    /\ blocks[1].closed
    /\ ~blocks[2].closed

\* C16: once a block is closed none of its fields changes for the rest of
\* the scan; closed never goes back to false.
C16_ClosedBlockFrozen ==
    [][result'.kind # "Err" =>
          \A i \in DOMAIN blocks :
              blocks[i].closed =>
                  (i \in DOMAIN blocks' /\ blocks'[i] = blocks[i])]_vars

\* an ordinary event was consumed after the only block had been closed
C16_Witness ==
    /\ result.kind = "none"
    /\ pos = 4
    /\ Starts(1)
    /\ PureEnd(2)
    /\ Ordinary(3)
    /\ content[3].span.end > content[2].span.end
    /\ Len(blocks) = 1
    /\ blocks[1].closed

\* the spans of the events consumed so far are non-decreasing in start
ConsumedNonDecreasingStart ==
    \A k \in 1..(pos - 2) : content[k].span.start <= content[k + 1].span.start

\* C18: for well-formed spans that are non-decreasing in start, in every
\* state of the scan each block's span is well-formed and a block's
\* inner_span, once it is not 0..0, is a well-formed range inside its span.
C18_InnerInsideSpan ==
    ConsumedNonDecreasingStart =>
        \A i \in DOMAIN blocks :
            /\ blocks[i].span.start <= blocks[i].span.end
            /\ blocks[i].inner_span # [start |-> 0, end |-> 0] =>
                   /\ blocks[i].span.start <= blocks[i].inner_span.start
                   /\ blocks[i].inner_span.start <= blocks[i].inner_span.end
                   /\ blocks[i].inner_span.end <= blocks[i].span.end

\* a block with two interior events whose inner_span starts after its span
C18_Witness ==
    /\ ConsumedNonDecreasingStart
    /\ pos = 4
    /\ Len(blocks) = 1
    /\ Len(blocks[1].events) = 3
    /\ Ordinary(2)
    /\ Ordinary(3)
    /\ blocks[1].inner_span = [start |-> 1, end |-> 1]
    /\ blocks[1].span = [start |-> 0, end |-> 1]
\* the state of the scan's state machine
ScanState(bs, res) ==
    IF res.kind = "Err" THEN "ERROR"
    ELSE IF res.kind = "Ok" THEN "EXHAUSTED"
    ELSE IF bs # <<>> /\ ~bs[Len(bs)].closed THEN "Open"
    ELSE "NoOpen"

\* how the precedence start, end, ordinary classifies the event at k
EventClass(k) ==
    IF content[k].event.is_start THEN "start"
    ELSE IF content[k].event.is_end THEN "end"
    ELSE "ordinary"

C17_Transitions ==
    {<<"NoOpen", "start", "Open">>,
     <<"Open", "end", "NoOpen">>,
     <<"Open", "ordinary", "Open">>,
     <<"NoOpen", "ordinary", "NoOpen">>,
     <<"NoOpen", "end", "NoOpen">>,
     <<"Open", "start", "ERROR">>}

C17_Step ==
    /\ result.kind = "none"
    /\ content' = content
    /\ IF pos > Len(content)
       THEN ScanState(blocks', result') = "EXHAUSTED" /\ pos' = pos
       ELSE /\ <<ScanState(blocks, result), EventClass(pos),
                 ScanState(blocks', result')>> \in C17_Transitions
            /\ pos' = IF result'.kind = "Err" THEN pos ELSE pos + 1

\* C17: the scan consumes the events once each in document order, follows
\* only the listed transitions, takes no step after Ok or the error, and
\* terminates in one of these two states.
C17_TerminatesByListedTransitions ==
    [][C17_Step]_vars /\ <>(result.kind \in {"Ok", "Err"})

\* a stray end event, then a start, then a second start raised the error
C17_Witness ==
    /\ result.kind = "Err"
    /\ pos = 3
    /\ PureEnd(1)
    /\ Starts(2)
    /\ Starts(3)
C12_SupportsIffSupported ==
    env.command = "supports" =>
        /\ cli.pc = "exit" =>
               /\ cli.exit \in {"Ok", "Err"}
               /\ (cli.exit = "Ok") <=> (env.renderer \in env.supported)
        /\ ~cli.stdin_read
        /\ ~cli.ran
        /\ ~cli.warned
        /\ cli.stdout = "empty"
        /\ cli.pc \in {"main", "handle_supports", "exit"}

\* a query for an unsupported renderer, next to a supported one, has failed
C12_Witness ==
    /\ env.command = "supports"
    /\ cli.pc = "exit"
    /\ cli.exit = "Err"
    /\ env.renderer = "markdown"
    /\ env.supported = {"html"}

AllParsedAndRun ==
    env.input_ok /\ env.book_version_ok /\ env.version_req_ok /\ env.run_ok

\* C13: in handle_preprocessing a version mismatch only logs a warning and
\* the preprocessor still runs and its result is written; the book is
\* written only after the input parse, both version parses and the run
\* have succeeded, and a failure of any of them ends in an error with
\* nothing written.
C13_MismatchNonFatal ==
    env.command = "none" =>
        /\ cli.stdout # "empty" => (AllParsedAndRun /\ cli.stdin_read /\ cli.ran)
        /\ cli.warned => ~env.matches
        /\ cli.pc = "exit" =>
               /\ ~AllParsedAndRun => (cli.exit = "Err" /\ cli.stdout = "empty")
               /\ (AllParsedAndRun /\ ~env.matches) => (cli.warned /\ cli.ran)
               /\ (AllParsedAndRun /\ env.write_ok) =>
                      (cli.exit = "Ok" /\ cli.stdout = "book")

\* a mismatching version was warned about and the book was still written
C13_Witness ==
    /\ env.command = "none"
    /\ cli.pc = "exit"
    /\ ~env.matches
    /\ cli.warned
    /\ cli.stdout = "book"
    /\ cli.exit = "Ok"
====
